---------------------------- MODULE Spec2Model ----------------------------
(***************************************************************************)
(* Appointment-slot availability engine of the hospital administration     *)
(* application (src/app.py): the slot generator generate_time_slots, the   *)
(* schedule template store (table doctor_slots), the booking ledger (table *)
(* appointments) and the handlers that read and write them.                *)
(*                                                                         *)
(* Text is modelled as a sequence of one-character strings, so that        *)
(* strptime and strftime are real conversions: "9:00" and "09:00" parse to *)
(* the same time and only the second is ever printed.  Python's None and   *)
(* the empty string are both the empty sequence: every place of the code   *)
(* that reads such a value only tests its truth.  A form field stands for  *)
(* its value after .strip().                                               *)
(***************************************************************************)
EXTENDS Integers, Sequences, FiniteSets, TLC

VARIABLES
    doctor_slots,   \* table doctor_slots: the committed rows, in rowid order
    appointments,   \* table appointments: the committed rows, in rowid order
    appt_seq,       \* sqlite_sequence of appointments: the last id handed out
    last,           \* the last request served one at a time, with its response
    gen,            \* one activation of generate_time_slots
    conn,           \* the concurrent requests: position, locals, open transaction
    db_lock         \* the connection holding SQLite's write lock, 0 when free

vars == <<doctor_slots, appointments, appt_seq, last, gen, conn, db_lock>>

-----------------------------------------------------------------------------
(* Bounds of the model *)

\* generate_time_slots is explored on the clock times 00:00 .. 00:MaxMinute
MaxMinute == 7
\* ... and on the intervals 1 .. MaxInterval minutes
MaxInterval == 3
\* number of appointment ids the ledger ever hands out
MaxAppointments == 2

(* Program constants *)

\* interval=15, the default every caller of generate_time_slots relies on
SlotInterval == 15
\* minutes in a day: strftime('%H:%M') prints the time of day only
DayMinutes == 1440

-----------------------------------------------------------------------------
(* Text *)

Digits == <<"0", "1", "2", "3", "4", "5", "6", "7", "8", "9">>

IsDigit(c) == \E i \in 1..10 : Digits[i] = c

DigitVals ==
    [c \in {Digits[i] : i \in 1..10} |-> (CHOOSE i \in 1..10 : Digits[i] = c) - 1]

DigitVal(c) == DigitVals[c]

AllDigits(s) == \A i \in 1..Len(s) : IsDigit(s[i])

\* value of a string of one or two digits
NatOf2(s) ==
    IF Len(s) = 1 THEN DigitVal(s[1]) ELSE 10 * DigitVal(s[1]) + DigitVal(s[2])

TwoDigits(n) == <<Digits[(n \div 10) + 1], Digits[(n % 10) + 1]>>

\* Python truthiness of a str or None
Truthy(s) == s # <<>>

None == <<>>

\* what strptime gives for text it cannot convert (ValueError)
ValueError == -1

\* datetime.strptime(s, '%H:%M') as minutes since 1900-01-01 00:00.
\* %H is one or two digits up to 23, %M one or two digits up to 59, and
\* nothing may remain.
StrptimeHM(s) ==
    LET colons == {i \in 1..Len(s) : s[i] = ":"} IN
    IF Cardinality(colons) # 1 THEN ValueError
    ELSE LET p == CHOOSE i \in colons : TRUE
             hh == SubSeq(s, 1, p - 1)
             mm == SubSeq(s, p + 1, Len(s))
             h == NatOf2(hh)
             m == NatOf2(mm)
         IN IF /\ Len(hh) \in {1, 2} /\ Len(mm) \in {1, 2}
               /\ AllDigits(hh) /\ AllDigits(mm)
               /\ h <= 23 /\ m <= 59
            THEN 60 * h + m
            ELSE ValueError

\* t.strftime('%H:%M'), t in minutes since 1900-01-01 00:00
StrftimeHM(t) ==
    LET tod == t % DayMinutes IN
    TwoDigits(tod \div 60) \o <<":">> \o TwoDigits(tod % 60)

\* t.strftime('%I:%M %p').lower()
StrftimeIMp(t) ==
    LET tod == t % DayMinutes
        h == tod \div 60
    IN TwoDigits(((h + 11) % 12) + 1) \o <<":">> \o TwoDigits(tod % 60)
         \o <<" ">> \o (IF h < 12 THEN <<"a", "m">> ELSE <<"p", "m">>)

-----------------------------------------------------------------------------
(* generate_time_slots *)

Slot(current_time, slot_end) ==
    [start |-> StrftimeHM(current_time),
     end |-> StrftimeHM(slot_end),
     display_start |-> StrftimeIMp(current_time),
     display_end |-> StrftimeIMp(slot_end)]

\* mutant of BreakTest: a candidate is skipped as soon as it overlaps the
\* break
BreakTestOverlap(current_time, slot_end, break_start, break_end) ==
    IF Truthy(break_start) /\ Truthy(break_end)
    THEN LET break_start_time == StrptimeHM(break_start)
             break_end_time == StrptimeHM(break_end)
         IN IF break_start_time = ValueError \/ break_end_time = ValueError
            THEN "raise"
            ELSE IF current_time < break_end_time /\ slot_end > break_start_time
                 THEN "skip"
                 ELSE "no"
    ELSE "no"

\* mutant of BreakTest: the candidate that starts at the break start is not
\* skipped
BreakTestAfterStart(current_time, slot_end, break_start, break_end) ==
    IF Truthy(break_start) /\ Truthy(break_end)
    THEN LET break_start_time == StrptimeHM(break_start)
             break_end_time == StrptimeHM(break_end)
         IN IF break_start_time = ValueError \/ break_end_time = ValueError
            THEN "raise"
            ELSE IF current_time > break_start_time /\ slot_end <= break_end_time
                 THEN "skip"
                 ELSE "no"
    ELSE "no"

\* the break test of one iteration: "raise" when a break bound does not
\* parse, "skip" when the candidate lies inside the break, "no" otherwise
BreakTest(current_time, slot_end, break_start, break_end) ==
    IF Truthy(break_start) /\ Truthy(break_end)
    THEN LET break_start_time == StrptimeHM(break_start)
             break_end_time == StrptimeHM(break_end)
         IN IF break_start_time = ValueError \/ break_end_time = ValueError
            THEN "raise"
            ELSE IF current_time >= break_start_time /\ slot_end <= break_end_time
                 THEN "skip"
                 ELSE "no"
    ELSE "no"

\* mutant of Emits: the candidate is appended whatever its end
EmitsAlways(slot_end, end_time) == TRUE

\* mutant of Emits: a slot that ends exactly at the end time is dropped
EmitsBeforeEnd(slot_end, end_time) == slot_end < end_time

\* whether the candidate [current_time, slot_end) is appended
Emits(slot_end, end_time) == slot_end <= end_time

\* mutant of Continues: the body runs once more, on a candidate that starts
\* at the end time
ContinuesAtEnd(current_time, end_time) == current_time <= end_time

\* line 38: while current_time < end_time
Continues(current_time, end_time) == current_time < end_time

\* mutant of NextCandidate: the cursor stays where it is
NextStuck(current_time, slot_end) == current_time

\* mutant of NextCandidate: the next candidate starts a minute later
NextMinute(current_time, slot_end) == current_time + 1

\* line 55: the next candidate starts where this one ends
NextCandidate(current_time, slot_end) == slot_end

\* one iteration of the while loop, entered with current_time < end_time
LoopBody(current_time, end_time, break_start, break_end, interval, slots) ==
    LET slot_end == current_time + interval
        bt == BreakTest(current_time, slot_end, break_start, break_end)
    IN IF bt = "raise"
       THEN [raised |-> TRUE, current_time |-> current_time, slots |-> slots]
       ELSE IF bt = "skip"
       THEN [raised |-> FALSE, current_time |-> StrptimeHM(break_end),
             slots |-> slots]
       ELSE [raised |-> FALSE,
             current_time |-> NextCandidate(current_time, slot_end),
             slots |-> IF Emits(slot_end, end_time)
                       THEN Append(slots, Slot(current_time, slot_end))
                       ELSE slots]

RECURSIVE Loop(_, _, _, _, _, _)
Loop(current_time, end_time, break_start, break_end, interval, slots) ==
    IF ~Continues(current_time, end_time)
    THEN [raised |-> FALSE, slots |-> slots]
    ELSE LET r == LoopBody(current_time, end_time, break_start, break_end,
                           interval, slots)
         IN IF r.raised
            THEN [raised |-> TRUE, slots |-> <<>>]
            ELSE Loop(r.current_time, end_time, break_start, break_end,
                      interval, r.slots)

\* the whole call: [raised, slots]
generate_time_slots(start_time, end_time, break_start, break_end, interval) ==
    LET current_time == StrptimeHM(start_time)
        end_dt == StrptimeHM(end_time)
    IN IF current_time = ValueError \/ end_dt = ValueError
       THEN [raised |-> TRUE, slots |-> <<>>]
       ELSE Loop(current_time, end_dt, break_start, break_end, interval, <<>>)

-----------------------------------------------------------------------------
(* One activation of generate_time_slots, an iteration of its loop at a time *)

GenIdle ==
    [pc |-> "idle", start_time |-> None, end_time |-> None,
     break_start |-> None, break_end |-> None, interval |-> SlotInterval,
     current_time |-> 0, end_dt |-> 0, slots |-> <<>>]

\* the clock texts the generator is explored on: the minutes 00:00 ..
\* 00:MaxMinute as strftime prints them, one text without zero padding and
\* one that is no time
GenTexts ==
    {StrftimeHM(t) : t \in 0..MaxMinute} \cup {<<"0", ":", "2">>, <<"x">>}

GenCalls ==
    {[pc |-> "call", start_time |-> s, end_time |-> e,
      break_start |-> bs, break_end |-> be, interval |-> i,
      current_time |-> 0, end_dt |-> 0, slots |-> <<>>] :
        s \in GenTexts, e \in GenTexts,
        bs \in GenTexts \cup {None}, be \in GenTexts \cup {None},
        i \in 1..MaxInterval}

\* mutant of FreshSlots: the list is the one the activation before left, as
\* a list shared between the calls would be
StaleSlots == gen.slots

\* line 34: slots = [], a new list in every activation
FreshSlots == <<>>

\* lines 34-36: the list is created and both bounds are parsed before the
\* loop
GenEnter ==
    /\ gen.pc = "call"
    /\ gen' = IF StrptimeHM(gen.start_time) = ValueError
                 \/ StrptimeHM(gen.end_time) = ValueError
              THEN [gen EXCEPT !.pc = "raised", !.slots = FreshSlots]
              ELSE [gen EXCEPT !.pc = "loop",
                               !.slots = FreshSlots,
                               !.current_time = StrptimeHM(gen.start_time),
                               !.end_dt = StrptimeHM(gen.end_time)]
    /\ UNCHANGED <<doctor_slots, appointments, appt_seq, last, conn, db_lock>>

\* lines 38-55: one iteration
GenIter ==
    /\ gen.pc = "loop"
    /\ Continues(gen.current_time, gen.end_dt)
    /\ LET r == LoopBody(gen.current_time, gen.end_dt, gen.break_start,
                         gen.break_end, gen.interval, gen.slots)
       IN gen' = IF r.raised
                 THEN [gen EXCEPT !.pc = "raised"]
                 ELSE [gen EXCEPT !.current_time = r.current_time,
                                  !.slots = r.slots]
    /\ UNCHANGED <<doctor_slots, appointments, appt_seq, last, conn, db_lock>>

\* line 57
GenReturn ==
    /\ gen.pc = "loop"
    /\ ~Continues(gen.current_time, gen.end_dt)
    /\ gen' = [gen EXCEPT !.pc = "returned"]
    /\ UNCHANGED <<doctor_slots, appointments, appt_seq, last, conn, db_lock>>

\* the arguments of the activation
CallArgs(g) ==
    <<g.start_time, g.end_time, g.break_start, g.break_end, g.interval>>

\* no call remembered yet
NoMemo == [args |-> <<>>, raised |-> FALSE, slots |-> <<>>]

\* the calls that are made one after the other: with and without break,
\* with a start that is no time, with two intervals
RepeatCalls ==
    {[pc |-> "call", start_time |-> s, end_time |-> e,
      break_start |-> bs, break_end |-> be, interval |-> i,
      current_time |-> 0, end_dt |-> 0, slots |-> <<>>,
      memo |-> NoMemo, between |-> FALSE] :
        s \in {StrftimeHM(0), <<"x">>},
        e \in {StrftimeHM(2), StrftimeHM(3)},
        bs \in {None, StrftimeHM(1), <<"x">>},
        be \in {None, StrftimeHM(2)},
        i \in 1..2}

\* the next call of generate_time_slots, once the one before has returned or
\* raised.  The result of an earlier call is remembered: that of the call
\* that just ended, or (keep) the one already remembered, with a call in
\* between.
GenCallAgain(call, keep) ==
    /\ gen.pc \in {"returned", "raised"}
    /\ LET remember == ~keep \/ gen.memo = NoMemo IN
       gen' = [gen EXCEPT
                 !.pc = "call",
                 !.start_time = call.start_time, !.end_time = call.end_time,
                 !.break_start = call.break_start,
                 !.break_end = call.break_end, !.interval = call.interval,
                 !.current_time = 0, !.end_dt = 0,
                 !.memo = IF remember
                          THEN [args |-> CallArgs(gen),
                                raised |-> gen.pc = "raised",
                                slots |-> IF gen.pc = "raised" THEN <<>>
                                          ELSE gen.slots]
                          ELSE gen.memo,
                 !.between = ~remember]
    /\ UNCHANGED <<doctor_slots, appointments, appt_seq, last, conn, db_lock>>

-----------------------------------------------------------------------------
(* Dates: datetime.strptime(date, '%Y-%m-%d') and strftime('%A') *)

RECURSIVE NatOf(_)
NatOf(s) ==
    IF Len(s) = 0 THEN 0
    ELSE 10 * NatOf(SubSeq(s, 1, Len(s) - 1)) + DigitVal(s[Len(s)])

IsLeap(y) == y % 4 = 0 /\ (y % 100 # 0 \/ y % 400 = 0)

DaysInMonth(y, m) ==
    IF m = 2 THEN (IF IsLeap(y) THEN 29 ELSE 28)
    ELSE IF m \in {4, 6, 9, 11} THEN 30 ELSE 31

RECURSIVE DaysBeforeMonth(_, _)
DaysBeforeMonth(y, m) ==
    IF m = 1 THEN 0 ELSE DaysBeforeMonth(y, m - 1) + DaysInMonth(y, m - 1)

DaysBeforeYear(y) ==
    LET z == y - 1 IN z * 365 + (z \div 4) - (z \div 100) + (z \div 400)

\* the proleptic Gregorian ordinal, 0001-01-01 being day 1
Ordinal(y, m, d) == DaysBeforeYear(y) + DaysBeforeMonth(y, m) + d

\* the date as its ordinal, or ValueError.  %Y is exactly four digits, %m
\* and %d one or two digits (a single "0" and "00" are no month and no day),
\* and the day must exist in the month.
StrptimeYmd(s) ==
    LET dashes == {i \in 1..Len(s) : s[i] = "-"} IN
    IF Cardinality(dashes) # 2 THEN ValueError
    ELSE LET p == CHOOSE i \in dashes : \A j \in dashes : i <= j
             q == CHOOSE i \in dashes : \A j \in dashes : j <= i
             yy == SubSeq(s, 1, p - 1)
             mm == SubSeq(s, p + 1, q - 1)
             dd == SubSeq(s, q + 1, Len(s))
             y == NatOf(yy)
             m == NatOf2(mm)
             d == NatOf2(dd)
         IN IF /\ Len(yy) = 4 /\ Len(mm) \in {1, 2} /\ Len(dd) \in {1, 2}
               /\ AllDigits(yy) /\ AllDigits(mm) /\ AllDigits(dd)
               /\ y >= 1
               /\ m \in 1..12
               /\ d \in 1..DaysInMonth(y, m)
            THEN Ordinal(y, m, d)
            ELSE ValueError

DayNames ==
    <<"Monday", "Tuesday", "Wednesday", "Thursday", "Friday", "Saturday",
      "Sunday">>

\* mutant of StrftimeA: the week is counted from the ordinal itself
StrftimeAShifted(ordinal) == DayNames[(ordinal % 7) + 1]

\* date_obj.strftime('%A'): weekday() is (toordinal() + 6) % 7, Monday 0; the
\* names are those of the C locale, the code never sets another
StrftimeA(ordinal) == DayNames[((ordinal + 6) % 7) + 1]

-----------------------------------------------------------------------------
(* The tenants, and the rows no modelled handler changes *)

\* staff ids: each admin account is one hospital (session['hospital_id'])
Hospitals == {1, 2}

\* table doctors after add_doctor by each admin: doctor d is hospital d's
doctors == {[id |-> 1, hospital_id |-> 1], [id |-> 2, hospital_id |-> 2]}

\* table patients after add_patient by each admin
patients == {[id |-> 1, hospital_id |-> 1], [id |-> 2, hospital_id |-> 2]}

\* the session after login as the admin of hospital h
AdminSession(h) == [user_type |-> "admin", user_id |-> h, hospital_id |-> h]

\* the session after doctor_login as doctor d
DoctorSession(d) ==
    [user_type |-> "doctor", user_id |-> d.id, hospital_id |-> d.hospital_id]

Admins == {AdminSession(h) : h \in Hospitals}

DoctorUsers == {DoctorSession(d) : d \in doctors}

IsAdmin(sess) == sess.user_type = "admin"

IsDoctor(sess) == sess.user_type = "doctor"

-----------------------------------------------------------------------------
(* SQL statements, as functions of the table *)

\* integer affinity of an id column: text that is a number is stored as
\* that number, any other text stays text and equals no id
IdOfText(s) == IF Len(s) > 0 /\ AllDigits(s) THEN NatOf(s) ELSE ValueError

Rows(tbl) == {tbl[i] : i \in 1..Len(tbl)}

\* SELECT * FROM doctors WHERE id = ? AND hospital_id = ?
SelectDoctor(doctor_id, hospital_id) ==
    {d \in doctors : d.id = doctor_id /\ d.hospital_id = hospital_id}

\* WHERE doctor_id = ? AND day = ? AND hospital_id = ?
TemplateKeyIs(r, doctor_id, day, hospital_id) ==
    r.doctor_id = doctor_id /\ r.day = day /\ r.hospital_id = hospital_id

\* mutant of DeleteTemplate: the submission adds its row and removes none
DeleteNoTemplate(tbl, doctor_id, day, hospital_id) == tbl

\* DELETE FROM doctor_slots WHERE doctor_id = ? AND day = ? AND hospital_id = ?
DeleteTemplate(tbl, doctor_id, day, hospital_id) ==
    LET keep(r) == ~TemplateKeyIs(r, doctor_id, day, hospital_id)
    IN SelectSeq(tbl, keep)

\* INSERT INTO doctor_slots (...) VALUES (?, ?, ?, ?, ?, ?, ?)
InsertTemplate(tbl, doctor_id, form, hospital_id) ==
    Append(tbl, [doctor_id |-> doctor_id, day |-> form.day,
                 start_time |-> form.start_time, end_time |-> form.end_time,
                 break_start |-> form.break_start,
                 break_end |-> form.break_end,
                 hospital_id |-> hospital_id])

\* mutant of SelectTemplate: the weekday is not part of the lookup
SelectTemplateAnyDay(tbl, doctor_id, day, hospital_id) ==
    LET keep(r) == r.doctor_id = doctor_id /\ r.hospital_id = hospital_id
    IN SelectSeq(tbl, keep)

\* SELECT * FROM doctor_slots WHERE doctor_id = ? AND day = ? AND hospital_id = ?
SelectTemplate(tbl, doctor_id, day, hospital_id) ==
    LET keep(r) == TemplateKeyIs(r, doctor_id, day, hospital_id)
    IN SelectSeq(tbl, keep)

\* foreign keys of appointments, PRAGMA foreign_keys = ON
AppointmentKeysExist(patient_id, doctor_id, hospital_id) ==
    /\ \E p \in patients : p.id = patient_id
    /\ \E d \in doctors : d.id = doctor_id
    /\ hospital_id \in Hospitals

\* INSERT INTO appointments (patient_id, doctor_id, date, time_slot, notes,
\* hospital_id): the id is the next of the sequence, the status the default
InsertAppointment(tbl, id, form, hospital_id) ==
    Append(tbl, [id |-> id,
                 patient_id |-> IdOfText(form.patient_id),
                 doctor_id |-> IdOfText(form.doctor_id),
                 date |-> form.date, time_slot |-> form.time_slot,
                 status |-> "Scheduled", hospital_id |-> hospital_id])

\* the UPDATE without the doctor test of its WHERE clause
UpdateStatusAnyDoctor(tbl, status, id, doctor_id, hospital_id) ==
    [i \in 1..Len(tbl) |->
        IF tbl[i].id = id /\ tbl[i].hospital_id = hospital_id
        THEN [tbl[i] EXCEPT !.status = status]
        ELSE tbl[i]]

\* UPDATE appointments SET status = ?
\* WHERE id = ? AND doctor_id = ? AND hospital_id = ?
UpdateStatus(tbl, status, id, doctor_id, hospital_id) ==
    [i \in 1..Len(tbl) |->
        IF /\ tbl[i].id = id /\ tbl[i].doctor_id = doctor_id
           /\ tbl[i].hospital_id = hospital_id
        THEN [tbl[i] EXCEPT !.status = status]
        ELSE tbl[i]]

\* the DELETE without the tenant test of its WHERE clause
DeleteAnyTenantRow(tbl, id, hospital_id) ==
    LET keep(r) == r.id # id
    IN SelectSeq(tbl, keep)

\* DELETE FROM appointments WHERE id = ? AND hospital_id = ?
DeleteAppointmentRow(tbl, id, hospital_id) ==
    LET keep(r) == ~(r.id = id /\ r.hospital_id = hospital_id)
    IN SelectSeq(tbl, keep)

\* the status test of the booked-slots query
Occupies(r) == r.status # "Cancelled"

\* SELECT time_slot FROM appointments WHERE doctor_id = ? AND date = ?
\* AND status != 'Cancelled' AND hospital_id = ?, as the list of line 609
SelectBookedSlots(tbl, doctor_id, date, hospital_id) ==
    LET keep(r) == /\ r.doctor_id = doctor_id /\ r.date = date
                   /\ Occupies(r) /\ r.hospital_id = hospital_id
        hit == SelectSeq(tbl, keep)
    IN [i \in 1..Len(hit) |-> hit[i].time_slot]

-----------------------------------------------------------------------------
(* The requests the handlers are explored on *)

T0900 == <<"0", "9", ":", "0", "0">>
T0915 == <<"0", "9", ":", "1", "5">>
T0930 == <<"0", "9", ":", "3", "0">>
T0945 == <<"0", "9", ":", "4", "5">>
T1000 == <<"1", "0", ":", "0", "0">>

\* 2024-01-01 is a Monday, 2024-01-02 the Tuesday after it, 2024-01-08 the
\* next Monday
Monday1 == <<"2", "0", "2", "4", "-", "0", "1", "-", "0", "1">>
Tuesday2 == <<"2", "0", "2", "4", "-", "0", "1", "-", "0", "2">>
Monday8 == <<"2", "0", "2", "4", "-", "0", "1", "-", "0", "8">>
\* the same Monday without zero padding, which strptime accepts
Monday1Short == <<"2", "0", "2", "4", "-", "1", "-", "1">>
NoDate == <<"x">>
\* a day the month does not have
Feb30 == <<"2", "0", "2", "4", "-", "0", "2", "-", "3", "0">>

\* Monday 09:00-10:00 with the break 09:30-09:45
FormValid ==
    [day |-> "Monday", start_time |-> T0900, end_time |-> T1000,
     break_start |-> T0930, break_end |-> T0945]

\* Monday 10:00-09:00, no break
FormInverted ==
    [day |-> "Monday", start_time |-> T1000, end_time |-> T0900,
     break_start |-> None, break_end |-> None]

\* no end time
FormMissing ==
    [day |-> "Monday", start_time |-> T0900, end_time |-> <<>>,
     break_start |-> None, break_end |-> None]

\* an end time that is no time
FormMalformed ==
    [day |-> "Monday", start_time |-> T0900, end_time |-> <<"x">>,
     break_start |-> None, break_end |-> None]

SetSlotsReq(sess, doctor_id, form, storage_ok) ==
    [sess |-> sess, doctor_id |-> doctor_id, form |-> form,
     storage_ok |-> storage_ok]

\* the admin of hospital 1 on its doctor, and one request for each way out
SetSlotsRequests ==
    {SetSlotsReq(AdminSession(1), 1, f, TRUE) :
        f \in {FormValid, FormInverted, FormMalformed}}
    \cup {SetSlotsReq(AdminSession(2), 1, FormValid, TRUE),
          SetSlotsReq(DoctorSession([id |-> 1, hospital_id |-> 1]), 1,
                      FormValid, TRUE),
          SetSlotsReq(AdminSession(1), 1, FormMissing, TRUE),
          SetSlotsReq(AdminSession(1), 1, FormValid, FALSE)}

Booking(patient_id, doctor_id, date, time_slot) ==
    [patient_id |-> patient_id, doctor_id |-> doctor_id, date |-> date,
     time_slot |-> time_slot]

ScheduleReq(sess, form, storage_ok) ==
    [sess |-> sess, form |-> form, storage_ok |-> storage_ok]

\* bookings that differ from the first in the slot (09:30, in the break of
\* FormValid), in the doctor and in the tenant, and one request for each way
\* out
ScheduleRequests ==
    {ScheduleReq(AdminSession(1), Booking(<<"1">>, <<"1">>, Monday1, T0900), TRUE),
     ScheduleReq(AdminSession(1), Booking(<<"1">>, <<"1">>, Monday1, T0930), TRUE),
     ScheduleReq(AdminSession(1), Booking(<<"1">>, <<"2">>, Monday1, T0900), TRUE),
     ScheduleReq(AdminSession(2), Booking(<<"2">>, <<"1">>, Monday1, T0900), TRUE),
     ScheduleReq(AdminSession(1), Booking(<<"1">>, <<"1">>, Monday1, <<>>), TRUE),
     ScheduleReq(AdminSession(1), Booking(<<"7">>, <<"1">>, Monday1, T0900), TRUE),
     ScheduleReq(DoctorSession([id |-> 1, hospital_id |-> 1]),
                 Booking(<<"1">>, <<"1">>, Monday1, T0900), TRUE),
     ScheduleReq(AdminSession(1), Booking(<<"1">>, <<"1">>, Monday1, T0900), FALSE)}

StatusReq(sess, appointment_id, status, storage_ok) ==
    [sess |-> sess, appointment_id |-> appointment_id, status |-> status,
     storage_ok |-> storage_ok]

AppointmentIds == 1..MaxAppointments

StatusRequests ==
    {StatusReq(DoctorSession([id |-> 1, hospital_id |-> 1]), a, st, TRUE) :
        a \in AppointmentIds, st \in {"Scheduled", "Completed", "Cancelled"}}
    \cup {StatusReq(DoctorSession([id |-> 2, hospital_id |-> 2]), 1,
                    "Cancelled", TRUE),
          StatusReq(AdminSession(1), 1, "Cancelled", TRUE),
          StatusReq(DoctorSession([id |-> 1, hospital_id |-> 1]), 1, "", TRUE),
          StatusReq(DoctorSession([id |-> 1, hospital_id |-> 1]), 1,
                    "Cancelled", FALSE)}

DeleteReq(sess, appointment_id, storage_ok) ==
    [sess |-> sess, appointment_id |-> appointment_id,
     storage_ok |-> storage_ok]

DeleteRequests ==
    {DeleteReq(AdminSession(h), a, TRUE) : h \in Hospitals, a \in AppointmentIds}
    \cup {DeleteReq(DoctorSession([id |-> 1, hospital_id |-> 1]), 1, TRUE),
          DeleteReq(AdminSession(1), 1, FALSE)}

GetSlotsReq(sess, doctor_id, date, storage_ok) ==
    [sess |-> sess, doctor_id |-> doctor_id, date |-> date,
     storage_ok |-> storage_ok]

\* doctor 1 on two Mondays and a Tuesday, asked by its hospital and by the
\* other one, and one request for each way out
GetSlotsRequests ==
    {GetSlotsReq(AdminSession(1), 1, dt, TRUE) :
        dt \in {Monday1, Monday8, Tuesday2, Monday1Short, NoDate}}
    \cup {GetSlotsReq(AdminSession(2), 1, Monday1, TRUE),
          GetSlotsReq(DoctorSession([id |-> 1, hospital_id |-> 1]), 1,
                      Monday1, TRUE),
          GetSlotsReq(AdminSession(1), 1, Monday1, FALSE),
          GetSlotsReq(AdminSession(1), 1, Tuesday2, FALSE),
          GetSlotsReq(AdminSession(1), 1, Feb30, TRUE),
          GetSlotsReq(AdminSession(1), 1, NoDate, FALSE)}

-----------------------------------------------------------------------------
(* The two conversions of get_doctor_slots, tabulated over the texts of the *)
(* requests: the tables hold what the operators compute, once per text      *)
(* instead of once per request.                                             *)

\* the year in four digits
FourDigits(n) == TwoDigits(n \div 100) \o TwoDigits(n % 100)

\* a date as the client writes it
DateText(t) ==
    FourDigits(t[1]) \o <<"-">> \o TwoDigits(t[2]) \o <<"-">> \o TwoDigits(t[3])

\* the days around the end of February of a common year, a leap year and
\* the two century years next to them, and the days around a new year: the
\* 29th of February is a date in one of the four years only
DayTriples ==
    {<<y, 2, d>> : y \in {1900, 2023, 2024, 2100}, d \in {28, 29}}
    \cup {<<y, 3, 1>> : y \in {1900, 2023, 2024, 2100}}
    \cup {<<2023, 12, 31>>}
    \cup {<<2024, 1, d>> : d \in 1..8}

\* the queries the weekday of a date is observed on
DayRequests ==
    {GetSlotsReq(AdminSession(1), 1, DateText(t), TRUE) : t \in DayTriples}
    \cup {GetSlotsReq(AdminSession(1), 1, dt, TRUE) :
             dt \in {Monday1Short, NoDate}}

RequestDates == {req.date : req \in GetSlotsRequests \cup DayRequests}

\* mutant of ParsedDate: a text that is no date is read as 0001-01-01
ParsedDateLenient ==
    [s \in RequestDates |->
        IF StrptimeYmd(s) = ValueError THEN Ordinal(1, 1, 1)
        ELSE StrptimeYmd(s)]

ParsedDate == [s \in RequestDates |-> StrptimeYmd(s)]

TemplateTimes(f) == <<f.start_time, f.end_time, f.break_start, f.break_end>>

StoredTimes == {TemplateTimes(req.form) : req \in SetSlotsRequests}

\* mutant of GeneratedSlots: a generation that raises counts as one that
\* returned no slot
GeneratedSlotsSwallowed ==
    [t \in StoredTimes |->
        [raised |-> FALSE,
         slots |-> generate_time_slots(t[1], t[2], t[3], t[4],
                                       SlotInterval).slots]]

GeneratedSlots ==
    [t \in StoredTimes |->
        generate_time_slots(t[1], t[2], t[3], t[4], SlotInterval)]

-----------------------------------------------------------------------------
(* The handlers, each as its response and the tables it commits.  A request *)
(* carries storage_ok: whether SQLite serves the statements of the try      *)
(* block (FALSE: the first of them raises, as a locked or unreadable        *)
(* database file does).                                                     *)

Json(outcome, slots, booked_slots) ==
    [outcome |-> outcome, slots |-> slots, booked_slots |-> booked_slots]

\* get_doctor_slots, lines 576-619
get_doctor_slots(templates, ledger, req) ==
    IF ~IsAdmin(req.sess) THEN Json("unauthorized", <<>>, <<>>)
    ELSE LET date_obj == ParsedDate[req.date] IN
    IF date_obj = ValueError THEN Json("invalid_date", <<>>, <<>>)
    ELSE IF ~req.storage_ok THEN Json("server_error", <<>>, <<>>)
    ELSE
      LET day == StrftimeA(date_obj)
          slot_info == SelectTemplate(templates, req.doctor_id, day,
                                      req.sess.hospital_id)
      IN IF slot_info = <<>> THEN Json("not_available", <<>>, <<>>)
         ELSE
           LET g == GeneratedSlots[TemplateTimes(slot_info[1])]
           IN IF g.raised THEN Json("server_error", <<>>, <<>>)
              ELSE Json("slots", g.slots,
                        SelectBookedSlots(ledger, req.doctor_id, req.date,
                                          req.sess.hospital_id))

\* line 530: not all([day, start_time, end_time])
TemplateFieldsMissing(form) ==
    ~(form.day # "" /\ Truthy(form.start_time) /\ Truthy(form.end_time))

\* the transaction of set_doctor_slots, lines 535-540
ReplaceTemplate(templates, doctor_id, form, hospital_id) ==
    InsertTemplate(DeleteTemplate(templates, doctor_id, form.day, hospital_id),
                   doctor_id, form, hospital_id)

\* set_doctor_slots (POST), lines 511-548: [outcome, doctor_slots]
set_doctor_slots(templates, req) ==
    IF ~IsAdmin(req.sess)
    THEN [outcome |-> "login", doctor_slots |-> templates]
    ELSE IF SelectDoctor(req.doctor_id, req.sess.hospital_id) = {}
    THEN [outcome |-> "doctor_not_found", doctor_slots |-> templates]
    ELSE IF TemplateFieldsMissing(req.form)
    THEN [outcome |-> "missing_fields", doctor_slots |-> templates]
    ELSE IF ~req.storage_ok
    THEN [outcome |-> "error", doctor_slots |-> templates]
    ELSE [outcome |-> "ok",
          doctor_slots |-> ReplaceTemplate(templates, req.doctor_id, req.form,
                                           req.sess.hospital_id)]

\* line 635: not all([patient_id, doctor_id, date, time_slot])
BookingFieldsMissing(form) ==
    ~(/\ Truthy(form.patient_id) /\ Truthy(form.doctor_id)
      /\ Truthy(form.date) /\ Truthy(form.time_slot))

\* what the INSERT of schedule_appointment checks before it adds the row:
\* the foreign keys, and nothing about the rows already in the ledger
BookingAccepted(ledger, form, hospital_id) ==
    AppointmentKeysExist(IdOfText(form.patient_id), IdOfText(form.doctor_id),
                         hospital_id)

\* schedule_appointment (POST), lines 621-651: [outcome, appointments, appt_seq]
schedule_appointment(ledger, seq, req) ==
    IF ~IsAdmin(req.sess)
    THEN [outcome |-> "login", appointments |-> ledger, appt_seq |-> seq]
    ELSE IF BookingFieldsMissing(req.form)
    THEN [outcome |-> "missing_fields", appointments |-> ledger,
          appt_seq |-> seq]
    ELSE IF ~req.storage_ok
            \/ ~BookingAccepted(ledger, req.form, req.sess.hospital_id)
    THEN [outcome |-> "error", appointments |-> ledger, appt_seq |-> seq]
    ELSE [outcome |-> "ok",
          appointments |-> InsertAppointment(ledger, seq + 1, req.form,
                                             req.sess.hospital_id),
          appt_seq |-> seq + 1]

\* update_appointment_status, lines 857-883: [outcome, appointments]
update_appointment_status(ledger, req) ==
    IF ~IsDoctor(req.sess)
    THEN [outcome |-> "login", appointments |-> ledger]
    ELSE IF req.status = ""
    THEN [outcome |-> "status_required", appointments |-> ledger]
    ELSE IF ~req.storage_ok
    THEN [outcome |-> "error", appointments |-> ledger]
    ELSE [outcome |-> "ok",
          appointments |-> UpdateStatus(ledger, req.status,
                               req.appointment_id, req.sess.user_id,
                               req.sess.hospital_id)]

\* delete_appointment, lines 717-734: [outcome, appointments]
delete_appointment(ledger, req) ==
    IF ~IsAdmin(req.sess)
    THEN [outcome |-> "login", appointments |-> ledger]
    ELSE IF ~req.storage_ok
    THEN [outcome |-> "error", appointments |-> ledger]
    ELSE [outcome |-> "ok",
          appointments |-> DeleteAppointmentRow(ledger, req.appointment_id,
                                                req.sess.hospital_id)]

-----------------------------------------------------------------------------
(* Requests served one at a time: each handler runs from its first line to  *)
(* its response before the next starts.  SQLite admits one write            *)
(* transaction at a time and every handler writes in one transaction, so    *)
(* the committed tables always are the result of such a sequence.           *)

Served(op, req, outcome, slots, booked_slots) ==
    [op |-> op, req |-> req, outcome |-> outcome, slots |-> slots,
     booked_slots |-> booked_slots]

SetDoctorSlots(req) ==
    LET r == set_doctor_slots(doctor_slots, req) IN
    /\ doctor_slots' = r.doctor_slots
    /\ last' = Served("set_doctor_slots", req, r.outcome, <<>>, <<>>)
    /\ UNCHANGED <<appointments, appt_seq, gen, conn, db_lock>>

GetDoctorSlots(req) ==
    LET r == get_doctor_slots(doctor_slots, appointments, req) IN
    /\ last' = Served("get_doctor_slots", req, r.outcome, r.slots,
                      r.booked_slots)
    /\ UNCHANGED <<doctor_slots, appointments, appt_seq, gen, conn, db_lock>>

ScheduleAppointment(req) ==
    LET r == schedule_appointment(appointments, appt_seq, req) IN
    /\ r.appt_seq <= MaxAppointments
    /\ appointments' = r.appointments
    /\ appt_seq' = r.appt_seq
    /\ last' = Served("schedule_appointment", req, r.outcome, <<>>, <<>>)
    /\ UNCHANGED <<doctor_slots, gen, conn, db_lock>>

UpdateAppointmentStatus(req) ==
    LET r == update_appointment_status(appointments, req) IN
    /\ appointments' = r.appointments
    /\ last' = Served("update_appointment_status", req, r.outcome, <<>>, <<>>)
    /\ UNCHANGED <<doctor_slots, appt_seq, gen, conn, db_lock>>

DeleteAppointment(req) ==
    LET r == delete_appointment(appointments, req) IN
    /\ appointments' = r.appointments
    /\ last' = Served("delete_appointment", req, r.outcome, <<>>, <<>>)
    /\ UNCHANGED <<doctor_slots, appt_seq, gen, conn, db_lock>>

\* the database after init_db and the registration of the two hospitals,
\* their doctors and their patients: no template, no appointment
Init ==
    /\ doctor_slots = <<>>
    /\ appointments = <<>>
    /\ appt_seq = 0
    /\ last = Served("none", [sess |-> AdminSession(1)], "none", <<>>, <<>>)
    /\ gen = GenIdle
    /\ conn = <<>>
    /\ db_lock = 0

Next ==
    \/ \E req \in SetSlotsRequests : SetDoctorSlots(req)
    \/ \E req \in GetSlotsRequests : GetDoctorSlots(req)
    \/ \E req \in ScheduleRequests : ScheduleAppointment(req)
    \/ \E req \in StatusRequests : UpdateAppointmentStatus(req)
    \/ \E req \in DeleteRequests : DeleteAppointment(req)

Spec == Init /\ [][Next]_vars

\* generate_time_slots alone, on every call of GenCalls
InitGen ==
    /\ doctor_slots = <<>>
    /\ appointments = <<>>
    /\ appt_seq = 0
    /\ last = Served("none", [sess |-> AdminSession(1)], "none", <<>>, <<>>)
    /\ gen \in GenCalls
    /\ conn = <<>>
    /\ db_lock = 0

NextGen == GenEnter \/ GenIter \/ GenReturn

SpecGen == InitGen /\ [][NextGen]_vars

\* the thread that runs the call is scheduled until the call ends
SpecGenLive == SpecGen /\ WF_vars(NextGen)

\* generate_time_slots called again and again
InitCalls ==
    /\ doctor_slots = <<>>
    /\ appointments = <<>>
    /\ appt_seq = 0
    /\ last = Served("none", [sess |-> AdminSession(1)], "none", <<>>, <<>>)
    /\ gen \in RepeatCalls
    /\ conn = <<>>
    /\ db_lock = 0

NextCalls ==
    \/ GenEnter
    \/ GenIter
    \/ GenReturn
    \/ \E call \in RepeatCalls, keep \in BOOLEAN : GenCallAgain(call, keep)

SpecCalls == InitCalls /\ [][NextCalls]_vars

-----------------------------------------------------------------------------
(* Requests served concurrently.  The development server answers each       *)
(* request in a thread of its own and every handler opens a connection of   *)
(* its own (get_db_connection), so the statements of two handlers           *)
(* interleave.  SQLite gives the write lock to the first statement that     *)
(* writes and keeps it until the commit or the rollback of its connection;  *)
(* a statement that finds the lock taken waits, and raises once its         *)
(* timeout has passed.  Reads see the committed tables; a read that finds   *)
(* a commit under way waits for it, and raises once its timeout has passed. *)

Clients == {1, 2}

\* the same hours on Tuesday
FormTuesday ==
    [day |-> "Tuesday", start_time |-> T0900, end_time |-> T1000,
     break_start |-> T0930, break_end |-> T0945]

ConcSetSlotsRequests ==
    {SetSlotsReq(AdminSession(1), 1, f, TRUE) :
        f \in {FormValid, FormInverted, FormTuesday, FormMissing}}

ConcScheduleRequests ==
    {ScheduleReq(AdminSession(1), Booking(<<"1">>, <<"1">>, Monday1, T0900), TRUE),
     ScheduleReq(AdminSession(1), Booking(<<"7">>, <<"1">>, Monday1, T0900), TRUE),
     ScheduleReq(AdminSession(1), Booking(<<"1">>, <<"1">>, Monday1, <<>>), TRUE)}

ConcGetSlotsRequests ==
    {GetSlotsReq(AdminSession(1), 1, Monday1, TRUE),
     GetSlotsReq(AdminSession(1), 1, NoDate, TRUE)}

\* a client before its first request
ConnIdle ==
    [pc |-> "idle", op |-> "none", req |-> [sess |-> AdminSession(1)],
     tx |-> <<>>, outcome |-> "none", slots |-> <<>>, booked_slots |-> <<>>,
     day |-> "", seen_free |-> {}, with |-> {}]

InFlight == {c \in Clients : conn[c].pc # "idle"}

\* client c sends a request: it overlaps the requests in flight
Sent(c, op, req, pc, outcome) ==
    [d \in Clients |->
        IF d = c
        THEN [conn[c] EXCEPT !.pc = pc, !.op = op, !.req = req, !.tx = <<>>,
                             !.outcome = outcome, !.slots = <<>>,
                             !.booked_slots = <<>>, !.day = "",
                             !.with = InFlight \ {c}]
        ELSE IF d \in InFlight
        THEN [conn[d] EXCEPT !.with = @ \cup {c}]
        ELSE conn[d]]

\* the handler of client c returns
Returned(c, outcome) ==
    [conn EXCEPT ![c].pc = "idle", ![c].outcome = outcome, ![c].tx = <<>>]

\* set_doctor_slots up to the try of line 534
ConnSetBegin(c, req) ==
    /\ conn[c].pc = "idle"
    /\ LET early == IF ~IsAdmin(req.sess) THEN "login"
                    ELSE IF SelectDoctor(req.doctor_id, req.sess.hospital_id) = {}
                    THEN "doctor_not_found"
                    ELSE IF TemplateFieldsMissing(req.form)
                    THEN "missing_fields"
                    ELSE "pending"
       IN conn' = Sent(c, "set_doctor_slots", req,
                       IF early = "pending" THEN "delete" ELSE "idle", early)
    /\ UNCHANGED <<doctor_slots, appointments, appt_seq, last, gen, db_lock>>

\* the DELETE of line 535 takes the write lock
ConnSetDelete(c) ==
    /\ conn[c].pc = "delete"
    /\ db_lock = 0
    /\ db_lock' = c
    /\ conn' = [conn EXCEPT ![c].pc = "insert",
                   ![c].tx = DeleteTemplate(doctor_slots,
                                conn[c].req.doctor_id, conn[c].req.form.day,
                                conn[c].req.sess.hospital_id)]
    /\ UNCHANGED <<doctor_slots, appointments, appt_seq, last, gen>>

\* the DELETE times out on the lock of another connection: lines 544-548
ConnSetBusy(c) ==
    /\ conn[c].pc = "delete"
    /\ db_lock \notin {0, c}
    /\ conn' = Returned(c, "error")
    /\ UNCHANGED <<doctor_slots, appointments, appt_seq, last, gen, db_lock>>

\* the INSERT of lines 537-540, in the transaction the DELETE opened
ConnSetInsert(c) ==
    /\ conn[c].pc = "insert"
    /\ conn' = [conn EXCEPT ![c].pc = "commit",
                   ![c].tx = InsertTemplate(conn[c].tx,
                                conn[c].req.doctor_id, conn[c].req.form,
                                conn[c].req.sess.hospital_id)]
    /\ UNCHANGED <<doctor_slots, appointments, appt_seq, last, gen, db_lock>>

\* a connection that commits each statement as it runs
Autocommitted(committed, tx) == tx

\* conn.close() of line 548 on a transaction that was not committed: SQLite
\* rolls it back, the tables are the committed ones
RolledBack(committed, tx) == committed

\* the INSERT of lines 537-540 raises (the disk is full, the file cannot be
\* written): the except of lines 544-546, then the close of line 548
ConnSetInsertFails(c) ==
    /\ conn[c].pc = "insert"
    /\ doctor_slots' = RolledBack(doctor_slots, conn[c].tx)
    /\ db_lock' = 0
    /\ conn' = Returned(c, "error")
    /\ UNCHANGED <<appointments, appt_seq, last, gen>>

\* conn.commit() of line 541
ConnSetCommit(c) ==
    /\ conn[c].pc = "commit"
    /\ doctor_slots' = conn[c].tx
    /\ db_lock' = 0
    /\ conn' = Returned(c, "ok")
    /\ UNCHANGED <<appointments, appt_seq, last, gen>>

\* schedule_appointment up to the try of line 639
ConnScheduleBegin(c, req) ==
    /\ conn[c].pc = "idle"
    /\ LET early == IF ~IsAdmin(req.sess) THEN "login"
                    ELSE IF BookingFieldsMissing(req.form)
                    THEN "missing_fields"
                    ELSE "pending"
       IN conn' = Sent(c, "schedule_appointment", req,
                       IF early = "pending" THEN "insert_appt" ELSE "idle",
                       early)
    /\ UNCHANGED <<doctor_slots, appointments, appt_seq, last, gen, db_lock>>

\* the INSERT of lines 640-643 takes the write lock; a foreign key without
\* row makes it raise, and the close of line 651 rolls back
ConnScheduleInsert(c) ==
    /\ conn[c].pc = "insert_appt"
    /\ db_lock = 0
    /\ IF BookingAccepted(appointments, conn[c].req.form,
                          conn[c].req.sess.hospital_id)
       THEN /\ appt_seq < MaxAppointments
            /\ db_lock' = c
            /\ conn' = [conn EXCEPT ![c].pc = "commit_appt",
                           ![c].tx = InsertAppointment(appointments,
                                        appt_seq + 1, conn[c].req.form,
                                        conn[c].req.sess.hospital_id)]
       ELSE /\ db_lock' = db_lock
            /\ conn' = Returned(c, "error")
    /\ UNCHANGED <<doctor_slots, appointments, appt_seq, last, gen>>

\* the INSERT times out on the lock of another connection: lines 647-651
ConnScheduleBusy(c) ==
    /\ conn[c].pc = "insert_appt"
    /\ db_lock \notin {0, c}
    /\ conn' = Returned(c, "error")
    /\ UNCHANGED <<doctor_slots, appointments, appt_seq, last, gen, db_lock>>

\* conn.commit() of line 644
ConnScheduleCommit(c) ==
    /\ conn[c].pc = "commit_appt"
    /\ appointments' = conn[c].tx
    /\ appt_seq' = appt_seq + 1
    /\ db_lock' = 0
    /\ conn' = Returned(c, "ok")
    /\ UNCHANGED <<doctor_slots, last, gen>>

\* get_doctor_slots up to the try of line 588: the local day is set by
\* line 583
ConnGetBegin(c, req) ==
    /\ conn[c].pc = "idle"
    /\ LET early == IF ~IsAdmin(req.sess) THEN "unauthorized"
                    ELSE IF ParsedDate[req.date] = ValueError
                    THEN "invalid_date"
                    ELSE "pending"
           sent == Sent(c, "get_doctor_slots", req,
                        IF early = "pending" THEN "select_template"
                        ELSE "idle",
                        early)
       IN conn' = [sent EXCEPT ![c].day = IF early = "pending"
                                          THEN StrftimeA(ParsedDate[req.date])
                                          ELSE ""]
    /\ UNCHANGED <<doctor_slots, appointments, appt_seq, last, gen, db_lock>>

\* mutant of CommittedTemplates: a query reads the rows of the transaction
\* that holds the write lock
UncommittedTemplates ==
    IF db_lock # 0 /\ conn[db_lock].op = "set_doctor_slots"
    THEN conn[db_lock].tx
    ELSE doctor_slots

\* the templates a query reads: those committed, whatever another
\* connection has deleted or inserted in a transaction still open
CommittedTemplates == doctor_slots

\* the template query and the generation, lines 589-602
ConnGetTemplate(c) ==
    /\ conn[c].pc = "select_template"
    /\ LET req == conn[c].req
           slot_info == SelectTemplate(CommittedTemplates, req.doctor_id,
                            conn[c].day, req.sess.hospital_id)
       IN IF slot_info = <<>>
          THEN conn' = Returned(c, "not_available")
          ELSE LET g == GeneratedSlots[TemplateTimes(slot_info[1])]
               IN IF g.raised
                  THEN conn' = Returned(c, "server_error")
                  ELSE conn' = [conn EXCEPT ![c].pc = "select_booked",
                                            ![c].slots = g.slots]
    /\ UNCHANGED <<doctor_slots, appointments, appt_seq, last, gen, db_lock>>

\* the (doctor, date, time-slot, tenant) of the slots a response shows free
FreeKeys(req, slots, booked_slots) ==
    {<<req.doctor_id, req.date, slots[i].start, req.sess.hospital_id>> :
        i \in {k \in 1..Len(slots) :
                  \A b \in 1..Len(booked_slots) :
                      booked_slots[b] # slots[k].start}}

\* the booked-slots query and the response, lines 604-614
ConnGetBooked(c) ==
    /\ conn[c].pc = "select_booked"
    /\ LET req == conn[c].req
           booked_slots == SelectBookedSlots(appointments, req.doctor_id,
                               req.date, req.sess.hospital_id)
       IN conn' = [conn EXCEPT ![c].pc = "idle", ![c].outcome = "slots",
                      ![c].booked_slots = booked_slots,
                      ![c].seen_free = FreeKeys(req, conn[c].slots,
                                                booked_slots)]
    /\ UNCHANGED <<doctor_slots, appointments, appt_seq, last, gen, db_lock>>

\* a query of get_doctor_slots times out on the lock of a connection that
\* is committing: lines 615-619
ConnGetBusy(c) ==
    /\ conn[c].pc \in {"select_template", "select_booked"}
    /\ db_lock \notin {0, c}
    /\ conn[db_lock].pc \in {"commit", "commit_appt"}
    /\ conn' = [conn EXCEPT ![c].pc = "idle", ![c].outcome = "server_error",
                            ![c].slots = <<>>]
    /\ UNCHANGED <<doctor_slots, appointments, appt_seq, last, gen, db_lock>>

InitConc ==
    /\ doctor_slots = <<>>
    /\ appointments = <<>>
    /\ appt_seq = 0
    /\ last = Served("none", [sess |-> AdminSession(1)], "none", <<>>, <<>>)
    /\ gen = GenIdle
    /\ conn = [c \in Clients |-> ConnIdle]
    /\ db_lock = 0

NextConc ==
    \E c \in Clients :
        \/ \E req \in ConcSetSlotsRequests : ConnSetBegin(c, req)
        \/ ConnSetDelete(c)
        \/ ConnSetBusy(c)
        \/ ConnSetInsert(c)
        \/ ConnSetInsertFails(c)
        \/ ConnSetCommit(c)
        \/ \E req \in ConcScheduleRequests : ConnScheduleBegin(c, req)
        \/ ConnScheduleInsert(c)
        \/ ConnScheduleBusy(c)
        \/ ConnScheduleCommit(c)
        \/ \E req \in ConcGetSlotsRequests : ConnGetBegin(c, req)
        \/ ConnGetTemplate(c)
        \/ ConnGetBooked(c)
        \/ ConnGetBusy(c)

SpecConc == InitConc /\ [][NextConc]_vars

\* get_doctor_slots alone, on the dates of DayRequests, by two clients, with
\* and without a template stored
InitDay ==
    /\ doctor_slots \in {<<>>, InsertTemplate(<<>>, 1, FormValid, 1)}
    /\ appointments = <<>>
    /\ appt_seq = 0
    /\ last = Served("none", [sess |-> AdminSession(1)], "none", <<>>, <<>>)
    /\ gen = GenIdle
    /\ conn = [c \in Clients |-> ConnIdle]
    /\ db_lock = 0

NextDay ==
    \E c \in Clients :
        \/ \E req \in DayRequests : ConnGetBegin(c, req)
        \/ ConnGetTemplate(c)
        \/ ConnGetBooked(c)

SpecDay == InitDay /\ [][NextDay]_vars

-----------------------------------------------------------------------------
(* Claims about generate_time_slots, under SpecGen *)

GenStart == StrptimeHM(gen.start_time)

GenEnd == StrptimeHM(gen.end_time)

GenBreakStart == StrptimeHM(gen.break_start)

GenBreakEnd == StrptimeHM(gen.break_end)

\* the break logic runs only when both bounds are given (line 41)
GenHasBreak == Truthy(gen.break_start) /\ Truthy(gen.break_end)

SlotStart(slot) == StrptimeHM(slot.start)

SlotEnd(slot) == StrptimeHM(slot.end)

\* C5: with start < end, a positive interval and no break, the call returns
\* exactly floor((end - start) / interval) slots, the k-th (from 0) being
\* [start + k*interval, start + (k+1)*interval), so that consecutive slots
\* are contiguous and only a remainder shorter than interval stays uncovered.
C5_NoBreakTiling ==
    (gen.pc = "returned" /\ ~GenHasBreak /\ GenStart < GenEnd) =>
        LET n == (GenEnd - GenStart) \div gen.interval IN
        /\ Len(gen.slots) = n
        /\ \A k \in 0..(n - 1) :
              /\ SlotStart(gen.slots[k + 1]) = GenStart + k * gen.interval
              /\ SlotEnd(gen.slots[k + 1]) = GenStart + (k + 1) * gen.interval
        /\ GenEnd - (GenStart + n * gen.interval) \in 0..(gen.interval - 1)

\* a call without break that returned two slots or more and dropped a remainder
C5_Witness ==
    /\ gen.pc = "returned" /\ ~GenHasBreak /\ GenStart < GenEnd
    /\ Len(gen.slots) >= 2
    /\ (GenEnd - GenStart) % gen.interval # 0

\* C6: with break-start < break-end and the break inside [start, end], no
\* emitted slot overlaps [break-start, break-end).
C6_NoSlotInBreak ==
    (/\ gen.pc = "returned" /\ GenHasBreak
     /\ GenBreakStart < GenBreakEnd
     /\ GenStart <= GenBreakStart /\ GenBreakEnd <= GenEnd) =>
        \A k \in 1..Len(gen.slots) :
            \/ SlotEnd(gen.slots[k]) <= GenBreakStart
            \/ SlotStart(gen.slots[k]) >= GenBreakEnd

\* C11: the slots generate_time_slots emits are in strictly increasing
\* start order and pairwise non-overlapping: each slot starts at or after
\* the end of the slot emitted before it.
C11_SlotsOrdered ==
    \A k \in 1..(Len(gen.slots) - 1) :
        /\ SlotStart(gen.slots[k]) < SlotStart(gen.slots[k + 1])
        /\ SlotEnd(gen.slots[k]) <= SlotStart(gen.slots[k + 1])

\* a returned sequence of three slots or more with a gap where the break
\* was skipped
C11_Witness ==
    /\ gen.pc = "returned" /\ GenHasBreak
    /\ Len(gen.slots) >= 3
    /\ \E k \in 1..(Len(gen.slots) - 1) :
          SlotEnd(gen.slots[k]) < SlotStart(gen.slots[k + 1])

\* C12: with or without a break, every emitted slot has
\* end - start = interval, start >= template start and end <= template end.
C12_SlotLengthAndBounds ==
    \A k \in 1..Len(gen.slots) :
        /\ SlotEnd(gen.slots[k]) - SlotStart(gen.slots[k]) = gen.interval
        /\ SlotStart(gen.slots[k]) >= GenStart
        /\ SlotEnd(gen.slots[k]) <= GenEnd

\* a returned sequence, generated around a break, whose last candidate did
\* not fit before the end and whose slots are longer than a minute
C12_Witness ==
    /\ gen.pc = "returned" /\ GenHasBreak
    /\ gen.interval > 1
    /\ Len(gen.slots) >= 2
    /\ SlotEnd(gen.slots[Len(gen.slots)]) < GenEnd

\* C19: for every template with start >= end, with or without a break,
\* generate_time_slots returns, and returns the empty sequence.
C19_EmptyWhenStartNotBeforeEnd ==
    (/\ gen.pc \in {"returned", "raised"}
     /\ GenStart # ValueError /\ GenEnd # ValueError
     /\ GenStart >= GenEnd)
        => /\ gen.pc = "returned"
           /\ gen.slots = <<>>

\* a call with start = end has returned although its break start is no time
C19_Witness ==
    /\ gen.pc = "returned"
    /\ GenStart # ValueError /\ GenStart = GenEnd
    /\ GenHasBreak /\ GenBreakStart = ValueError
    /\ gen.slots = <<>>

\* C21: for every start, end, break window (break-start >= break-end and
\* breaks outside [start, end] included) and positive interval, the loop of
\* generate_time_slots terminates: every iteration, those that skip the
\* break included, moves the cursor forward, and the call ends.
C21_LoopTerminates ==
    /\ [][(gen.pc = "loop" /\ gen'.pc = "loop")
             => gen'.current_time > gen.current_time]_vars
    /\ <>(gen.pc \in {"returned", "raised"})

\* a call has returned whose break starts inside the template and ends
\* after it, and whose candidates from the break start on were skipped
C21_Witness ==
    /\ gen.pc = "returned"
    /\ GenHasBreak
    /\ GenBreakStart # ValueError /\ GenBreakEnd # ValueError
    /\ GenStart < GenBreakStart /\ GenEnd < GenBreakEnd
    /\ GenBreakStart + gen.interval <= GenEnd
    /\ gen.slots # <<>>
    /\ gen.current_time = GenBreakEnd

\* the break rule applies to the candidate of the iteration
BreakRuleApplies ==
    /\ GenHasBreak
    /\ gen.current_time >= GenBreakStart
    /\ gen.current_time + gen.interval <= GenBreakEnd

\* C22: a candidate is suppressed by the break rule exactly when both break
\* bounds are given, cursor >= break-start and cursor + interval <=
\* break-end; the cursor then jumps to break-end, where the next candidate
\* starts, on the grid of the interval or not.  Any other candidate moves
\* the cursor to its end, and is emitted when it ends by the end time.
C22_BreakSkipRule ==
    [][(gen.pc = "loop" /\ gen'.pc = "loop") =>
          IF BreakRuleApplies
          THEN /\ gen'.slots = gen.slots
               /\ gen'.current_time = GenBreakEnd
          ELSE /\ gen'.current_time = gen.current_time + gen.interval
               /\ gen'.slots =
                     IF gen.current_time + gen.interval <= gen.end_dt
                     THEN Append(gen.slots,
                                 Slot(gen.current_time,
                                      gen.current_time + gen.interval))
                     ELSE gen.slots]_vars

\* after a slot before the break and a skip, a slot has been emitted that
\* starts at the break end, off the grid of the interval
C22_Witness ==
    /\ gen.pc = "loop"
    /\ GenHasBreak
    /\ (GenBreakEnd - GenStart) % gen.interval # 0
    /\ Len(gen.slots) >= 2
    /\ SlotStart(gen.slots[Len(gen.slots)]) = GenBreakEnd
    /\ SlotEnd(gen.slots[1]) <= GenBreakStart

\* the break bounds lie on the grid of the interval from the start, inside
\* the template
BreakOnGrid ==
    /\ GenHasBreak
    /\ GenStart # ValueError /\ GenEnd # ValueError
    /\ GenBreakStart # ValueError /\ GenBreakEnd # ValueError
    /\ GenStart <= GenBreakStart /\ GenBreakStart < GenBreakEnd
    /\ GenBreakEnd <= GenEnd
    /\ (GenBreakStart - GenStart) % gen.interval = 0
    /\ (GenBreakEnd - GenStart) % gen.interval = 0

\* the slot lies in [break-start, break-end)
InBreak(slot) ==
    SlotStart(slot) >= GenBreakStart /\ SlotEnd(slot) <= GenBreakEnd

\* the slots generated without the break, less those in the break
NoBreakSlotsOutsideBreak ==
    LET keep(slot) == ~InBreak(slot)
    IN SelectSeq(generate_time_slots(gen.start_time, gen.end_time, None, None,
                                     gen.interval).slots, keep)

\* C23: with both break bounds on the grid of the interval from the start
\* and start <= break-start < break-end <= end, generate_time_slots returns
\* the slots it returns without break, less those contained in
\* [break-start, break-end), in the same order.
C23_GridBreakRemovesSlots ==
    (gen.pc = "returned" /\ BreakOnGrid) =>
        gen.slots = NoBreakSlotsOutsideBreak

\* a call with a break on the grid has returned slots before the break and
\* after it
C23_Witness ==
    /\ gen.pc = "returned" /\ BreakOnGrid
    /\ gen.interval > 1
    /\ Len(gen.slots) >= 2
    /\ SlotEnd(gen.slots[1]) <= GenBreakStart
    /\ SlotStart(gen.slots[Len(gen.slots)]) >= GenBreakEnd

-----------------------------------------------------------------------------
(* Claims about repeated calls of generate_time_slots, under SpecCalls *)

\* C17: generate_time_slots is deterministic and stateless: a call with the
\* arguments of an earlier call, whatever calls were made in between, ends
\* as the earlier one did, with the same slot sequence.
C17_SameCallSameSlots ==
    (/\ gen.pc \in {"returned", "raised"}
     /\ gen.memo.args = CallArgs(gen))
        => /\ (gen.pc = "raised") = gen.memo.raised
           /\ gen.pc = "returned" => gen.slots = gen.memo.slots

\* a call has returned slots, a call with the same arguments was made
\* earlier and another call between the two
C17_Witness ==
    /\ gen.pc = "returned"
    /\ gen.memo.args = CallArgs(gen)
    /\ gen.between
    /\ Len(gen.slots) >= 2

-----------------------------------------------------------------------------
(* Claims about the ledger and the template store, under Spec *)

Range(seq) == {seq[i] : i \in 1..Len(seq)}

\* two ledger rows hold the same (doctor, date, time-slot, tenant)
SameSlot(a, b) ==
    /\ a.doctor_id = b.doctor_id /\ a.date = b.date
    /\ a.time_slot = b.time_slot /\ a.hospital_id = b.hospital_id

\* C1: in every reachable state, for each (doctor, date, time-slot, tenant)
\* at most one appointment whose status is not "Cancelled" is in the ledger.
C1_OneOccupantPerSlot ==
    \A i, j \in 1..Len(appointments) :
        (/\ i # j
         /\ appointments[i].status # "Cancelled"
         /\ appointments[j].status # "Cancelled")
            => ~SameSlot(appointments[i], appointments[j])

\* the request is a complete booking by an admin for a (doctor, date, slot,
\* tenant) that a non-cancelled row of the ledger holds
BookingHitsOccupiedSlot(ledger, req) ==
    /\ IsAdmin(req.sess)
    /\ ~BookingFieldsMissing(req.form)
    /\ \E i \in 1..Len(ledger) :
          /\ ledger[i].status # "Cancelled"
          /\ ledger[i].doctor_id = IdOfText(req.form.doctor_id)
          /\ ledger[i].date = req.form.date
          /\ ledger[i].time_slot = req.form.time_slot
          /\ ledger[i].hospital_id = req.sess.hospital_id

\* C2: a schedule_appointment call for a (doctor, date, slot, tenant) that a
\* non-cancelled appointment holds fails with a conflict error of its own and
\* leaves the ledger unchanged.
C2_SecondBookingRefused ==
    [][(/\ last'.op = "schedule_appointment"
        /\ BookingHitsOccupiedSlot(appointments, last'.req))
          => (/\ last'.outcome = "conflict"
              /\ appointments' = appointments)]_vars

\* the step is an update_appointment_status call that takes row i of the
\* ledger from a status other than "Cancelled" to "Cancelled"
Cancels(i) ==
    /\ last'.op = "update_appointment_status"
    /\ last'.req.status = "Cancelled"
    /\ i \in 1..Len(appointments) /\ i \in 1..Len(appointments')
    /\ appointments[i].status # "Cancelled"
    /\ appointments'[i].status = "Cancelled"

\* C4: once update_appointment_status has set an appointment to "Cancelled",
\* a get_doctor_slots query for its (doctor, date) by its tenant no longer
\* lists its time-slot in booked_slots.
C4_CancelFreesSlot ==
    [][\A i \in 1..Len(appointments) :
          Cancels(i) =>
            LET row == appointments'[i]
                r == get_doctor_slots(doctor_slots', appointments',
                        GetSlotsReq(AdminSession(row.hospital_id),
                                    row.doctor_id, row.date, TRUE))
            IN row.time_slot \notin Range(r.booked_slots)]_vars

\* start < end and, with a break, break-start < break-end inside [start, end]
TemplateValid(row) ==
    LET start == StrptimeHM(row.start_time)
        end == StrptimeHM(row.end_time)
        break_start == StrptimeHM(row.break_start)
        break_end == StrptimeHM(row.break_end)
    IN /\ start # ValueError /\ end # ValueError
       /\ start < end
       /\ (Truthy(row.break_start) \/ Truthy(row.break_end)) =>
             /\ break_start # ValueError /\ break_end # ValueError
             /\ break_start < break_end
             /\ start <= break_start /\ break_end <= end

\* C8: every template stored by set_doctor_slots has start < end and, if a
\* break is present, break-start < break-end within [start, end].
C8_StoredTemplatesValid ==
    \A i \in 1..Len(doctor_slots) : TemplateValid(doctor_slots[i])

\* the slot of a ledger row is the start of a slot generated from the
\* template stored for the row's doctor, tenant and weekday of its date
SlotOffered(templates, row) ==
    LET date_obj == StrptimeYmd(row.date) IN
    /\ date_obj # ValueError
    /\ LET t == SelectTemplate(templates, row.doctor_id, StrftimeA(date_obj),
                               row.hospital_id)
       IN /\ t # <<>>
          /\ LET g == generate_time_slots(t[1].start_time, t[1].end_time,
                          t[1].break_start, t[1].break_end, SlotInterval)
             IN /\ ~g.raised
                /\ \E k \in 1..Len(g.slots) : g.slots[k].start = row.time_slot

\* C13: every appointment schedule_appointment creates has a time-slot that
\* is the start string of a slot generated from the doctor's template for
\* the weekday of the appointment's date; a booking of any other time-slot,
\* or of a doctor without template that weekday, is not created.
C13_BookedSlotIsOffered ==
    [][(/\ last'.op = "schedule_appointment"
        /\ Len(appointments') = Len(appointments) + 1)
          => SlotOffered(doctor_slots, appointments'[Len(appointments')])]_vars

\* a time of the form does not parse as %H:%M
TimeMalformed(form) ==
    \/ StrptimeHM(form.start_time) = ValueError
    \/ StrptimeHM(form.end_time) = ValueError
    \/ Truthy(form.break_start) /\ StrptimeHM(form.break_start) = ValueError
    \/ Truthy(form.break_end) /\ StrptimeHM(form.break_end) = ValueError

\* the one validation error of set_doctor_slots, line 531
ValidationErrors == {"missing_fields"}

\* C14: a set_doctor_slots submission with a required field missing or with
\* a malformed time is rejected with a validation error and leaves the
\* template store as it was.
C14_BadSubmissionRejected ==
    [][(/\ last'.op = "set_doctor_slots"
        /\ IsAdmin(last'.req.sess)
        /\ SelectDoctor(last'.req.doctor_id, last'.req.sess.hospital_id) # {}
        /\ \/ TemplateFieldsMissing(last'.req.form)
           \/ TimeMalformed(last'.req.form))
          => (/\ last'.outcome \in ValidationErrors
              /\ doctor_slots' = doctor_slots)]_vars

\* the last request was get_doctor_slots by an admin with a date that parses
AnsweredQuery ==
    /\ last.op = "get_doctor_slots"
    /\ IsAdmin(last.req.sess)
    /\ StrptimeYmd(last.req.date) # ValueError

\* a template is stored for the (doctor, weekday, tenant) of the last query
TemplateStored ==
    \E i \in 1..Len(doctor_slots) :
        /\ doctor_slots[i].doctor_id = last.req.doctor_id
        /\ doctor_slots[i].day = StrftimeA(StrptimeYmd(last.req.date))
        /\ doctor_slots[i].hospital_id = last.req.sess.hospital_id

\* C9 as stated: a query for a (doctor, date, tenant) without template for
\* the date's weekday always returns 'not available'.
C9_NoTemplateNotAvailable ==
    (AnsweredQuery /\ ~TemplateStored) => last.outcome = "not_available"

\* C9, amended: a query for a (doctor, date, tenant) without template for the
\* date's weekday returns 'not available', or the server error when the
\* template lookup raises, and never a slots list; a slots list is returned
\* only when a template for the (doctor, weekday, tenant) is stored.
C9_NoTemplateNoSlots ==
    /\ (AnsweredQuery /\ ~TemplateStored) =>
          /\ last.outcome \in {"not_available", "server_error"}
          /\ last.req.storage_ok => last.outcome = "not_available"
          /\ last.slots = <<>> /\ last.booked_slots = <<>>
    /\ (last.op = "get_doctor_slots" /\ last.outcome = "slots") =>
          AnsweredQuery /\ TemplateStored

\* 'not available' on a Tuesday or for the other tenant while the doctor has
\* a Monday template
C9_Witness ==
    /\ AnsweredQuery /\ ~TemplateStored
    /\ last.outcome = "not_available"
    /\ doctor_slots # <<>>

\* C15: for an admin, get_doctor_slots with a date that does not parse
\* answers the invalid-date client error, which is not the 'not available'
\* outcome, in every store state and whatever the storage does, and never
\* returns slots.
C15_InvalidDateIsClientError ==
    (/\ last.op = "get_doctor_slots"
     /\ IsAdmin(last.req.sess)
     /\ StrptimeYmd(last.req.date) = ValueError)
        => /\ last.outcome = "invalid_date"
           /\ last.outcome # "not_available"
           /\ last.slots = <<>> /\ last.booked_slots = <<>>

\* the invalid-date answer for 2024-02-30 while the doctor has a template
C15_Witness ==
    /\ last.op = "get_doctor_slots"
    /\ last.req.date = Feb30
    /\ last.outcome = "invalid_date"
    /\ \E i \in 1..Len(doctor_slots) :
          doctor_slots[i].doctor_id = last.req.doctor_id

\* the generation over a template stored for the last query raises
GenerationRaises ==
    \E i \in 1..Len(doctor_slots) :
        /\ doctor_slots[i].doctor_id = last.req.doctor_id
        /\ doctor_slots[i].day = StrftimeA(StrptimeYmd(last.req.date))
        /\ doctor_slots[i].hospital_id = last.req.sess.hospital_id
        /\ generate_time_slots(doctor_slots[i].start_time,
                               doctor_slots[i].end_time,
                               doctor_slots[i].break_start,
                               doctor_slots[i].break_end, SlotInterval).raised

OccupiedSlots(ledger, doctor_id, date, hospital_id) ==
    {r.time_slot : r \in {x \in Range(ledger) :
        /\ x.doctor_id = doctor_id /\ x.date = date
        /\ x.hospital_id = hospital_id /\ x.status # "Cancelled"}}

\* C10: the booked collection of a get_doctor_slots response is exactly the
\* set of time-slots of the appointments of that doctor, date and tenant
\* whose status is not "Cancelled", and no string appears in it twice.
C10_BookedIsTheOccupiedSet ==
    (last.op = "get_doctor_slots" /\ last.outcome = "slots") =>
        LET occupied == OccupiedSlots(appointments, last.req.doctor_id,
                                      last.req.date, last.req.sess.hospital_id)
        IN /\ Range(last.booked_slots) = occupied
           /\ Len(last.booked_slots) = Cardinality(occupied)

\* the step serves a delete_appointment request
DeleteServed == last'.op = "delete_appointment"

\* the row is the one a delete_appointment request names, in the tenant of
\* its session
DeleteTarget(r, req) ==
    r.id = req.appointment_id /\ r.hospital_id = req.sess.hospital_id

\* C24: delete_appointment by an admin of tenant T removes the appointment
\* with the given id only if it belongs to T: every appointment of another
\* tenant and every other appointment of T stays as it was, in the order it
\* was; once removed, the appointment no longer adds its time-slot to the
\* booked slots of its doctor, date and tenant.  A request without admin
\* session, or one the storage fails, removes nothing.
C24_DeleteOnlyOwnTenant ==
    [][DeleteServed =>
        LET req == last'.req
            gone == {r \in Range(appointments) : r \notin Range(appointments')}
        IN /\ Range(appointments') \subseteq Range(appointments)
           /\ Len(appointments') = Len(appointments) - Cardinality(gone)
           /\ \A i, j \in 1..Len(appointments') :
                 i < j => \E k, l \in 1..Len(appointments) :
                    /\ k < l /\ appointments[k] = appointments'[i]
                    /\ appointments[l] = appointments'[j]
           /\ \A r \in gone : IsAdmin(req.sess) /\ DeleteTarget(r, req)
           /\ (IsAdmin(req.sess) /\ last'.outcome = "ok") =>
                 \A r \in Range(appointments) : DeleteTarget(r, req) => r \in gone
           /\ \A r \in gone :
                 Len(SelectBookedSlots(appointments', r.doctor_id, r.date,
                                       r.hospital_id))
                   = Len(SelectBookedSlots(appointments, r.doctor_id, r.date,
                                           r.hospital_id))
                     - (IF Occupies(r) THEN 1 ELSE 0)
    ]_vars

\* the admin of hospital 1 has deleted appointment 1, and the appointment of
\* hospital 2 on the same doctor, date and time-slot is still in the ledger
C24_Witness ==
    /\ last.op = "delete_appointment"
    /\ last.outcome = "ok"
    /\ last.req.sess = AdminSession(1)
    /\ last.req.appointment_id = 1
    /\ appt_seq = 2
    /\ Len(appointments) = 1
    /\ appointments[1].id = 2
    /\ appointments[1].hospital_id = 2
    /\ SelectBookedSlots(appointments, 1, Monday1, 1) = <<>>

\* the step serves an update_appointment_status request
StatusServed == last'.op = "update_appointment_status"

\* the caller of the request is the doctor the row is assigned to, in the
\* tenant of the row
AssignedDoctor(r, req) ==
    /\ IsDoctor(req.sess)
    /\ r.doctor_id = req.sess.user_id
    /\ r.hospital_id = req.sess.hospital_id

\* C25: update_appointment_status changes an appointment only when the
\* caller is the doctor assigned to it, in its tenant, and the status sent
\* is not empty; then the status of that one appointment is the only thing
\* that changes.  In every other case the ledger is unchanged.
C25_StatusOnlyByAssignedDoctor ==
    [][StatusServed =>
        LET req == last'.req IN
        /\ Len(appointments') = Len(appointments)
        /\ \A i \in 1..Len(appointments) :
              IF /\ appointments[i].id = req.appointment_id
                 /\ AssignedDoctor(appointments[i], req)
                 /\ req.status # ""
                 /\ last'.outcome = "ok"
              THEN appointments'[i] =
                      [appointments[i] EXCEPT !.status = req.status]
              ELSE appointments'[i] = appointments[i]
        /\ (~IsDoctor(req.sess) \/ req.status = "" \/ last'.outcome # "ok")
              => appointments' = appointments
    ]_vars

\* doctor 1 has completed appointment 1 of hospital 1; the appointment that
\* hospital 2 holds on doctor 1 still has the status it was created with
C25_Witness ==
    /\ last.op = "update_appointment_status"
    /\ last.outcome = "ok"
    /\ last.req.status = "Completed"
    /\ Len(appointments) = 2
    /\ \E i, j \in 1..2 :
          /\ appointments[i].id = last.req.appointment_id
          /\ AssignedDoctor(appointments[i], last.req)
          /\ appointments[i].status = "Completed"
          /\ appointments[j].doctor_id = last.req.sess.user_id
          /\ appointments[j].hospital_id # last.req.sess.hospital_id
          /\ appointments[j].status = "Scheduled"

\* the tenant of the doctor, and of the patient, with the id
TenantOfDoctor(id) == (CHOOSE d \in doctors : d.id = id).hospital_id

TenantOfPatient(id) == (CHOOSE p \in patients : p.id = id).hospital_id

\* C26: in every reachable state the doctor and the patient of each
\* appointment belong to the tenant of the appointment: schedule_appointment
\* by an admin of tenant T stores no appointment on a doctor or a patient of
\* another tenant.
C26_AppointmentWithinTenant ==
    \A i \in 1..Len(appointments) :
        /\ TenantOfDoctor(appointments[i].doctor_id)
              = appointments[i].hospital_id
        /\ TenantOfPatient(appointments[i].patient_id)
              = appointments[i].hospital_id

-----------------------------------------------------------------------------
(* Claims about concurrent requests, under SpecConc *)

\* the last request of client c was a complete booking by an admin, of a
\* patient and a doctor of the database, and it has been answered
Booked(c) ==
    /\ conn[c].pc = "idle"
    /\ conn[c].op = "schedule_appointment"
    /\ IsAdmin(conn[c].req.sess)
    /\ ~BookingFieldsMissing(conn[c].req.form)
    /\ BookingAccepted(appointments, conn[c].req.form,
                       conn[c].req.sess.hospital_id)

BookingKey(c) ==
    <<IdOfText(conn[c].req.form.doctor_id), conn[c].req.form.date,
      conn[c].req.form.time_slot, conn[c].req.sess.hospital_id>>

\* the bookings of c and d were for the same (doctor, date, slot, tenant),
\* ran at the same time, and each client had seen the slot free before
RacedForSlot(c, d) ==
    /\ c # d
    /\ Booked(c) /\ Booked(d)
    /\ d \in conn[c].with /\ c \in conn[d].with
    /\ BookingKey(c) = BookingKey(d)
    /\ BookingKey(c) \in conn[c].seen_free
    /\ BookingKey(d) \in conn[d].seen_free

\* C3: of two concurrent bookings of the same (doctor, date, slot, tenant),
\* each made after a get_doctor_slots response that showed the slot free,
\* exactly one succeeds and the other receives a conflict error.
C3_OneOfTwoConcurrentBookings ==
    \A c, d \in Clients :
        RacedForSlot(c, d) =>
            \/ conn[c].outcome = "ok" /\ conn[d].outcome = "conflict"
            \/ conn[c].outcome = "conflict" /\ conn[d].outcome = "ok"

\* the step commits the set_doctor_slots submission of client c
CommitsTemplate(c) ==
    /\ conn[c].op = "set_doctor_slots"
    /\ conn[c].pc = "commit"
    /\ conn'[c].pc = "idle"

\* the rows of the store for the (doctor, weekday, tenant) of a row
SameKeyRows(tbl, row) ==
    {i \in 1..Len(tbl) :
        /\ tbl[i].doctor_id = row.doctor_id /\ tbl[i].day = row.day
        /\ tbl[i].hospital_id = row.hospital_id}

\* the row a submission asks to store
SubmittedRow(req) ==
    [doctor_id |-> req.doctor_id, day |-> req.form.day,
     start_time |-> req.form.start_time, end_time |-> req.form.end_time,
     break_start |-> req.form.break_start, break_end |-> req.form.break_end,
     hospital_id |-> req.sess.hospital_id]

\* C7: the template store holds at most one template per (doctor, weekday,
\* tenant); under every interleaving of set_doctor_slots submissions, a
\* commit leaves for its key exactly the row of the committed submission and
\* for every other key the row it had, and no other step changes the store.
C7_OneTemplatePerKey ==
    [][/\ \A i \in 1..Len(doctor_slots') :
             SameKeyRows(doctor_slots', doctor_slots'[i]) = {i}
       /\ \A c \in Clients :
             CommitsTemplate(c) =>
                LET row == SubmittedRow(conn[c].req) IN
                /\ \E i \in 1..Len(doctor_slots') : doctor_slots'[i] = row
                /\ \A r \in Range(doctor_slots) :
                      (r.doctor_id = row.doctor_id /\ r.day = row.day
                       /\ r.hospital_id = row.hospital_id)
                      \/ r \in Range(doctor_slots')
                /\ Len(doctor_slots') <= Len(doctor_slots) + 1
       /\ (\A c \in Clients : ~CommitsTemplate(c)) =>
             doctor_slots' = doctor_slots]_vars

\* both clients have committed a submission for the same (doctor, weekday,
\* tenant), with different hours, in requests that ran at the same time,
\* while a template of another weekday is stored
C7_Witness ==
    /\ \A c \in Clients :
          /\ conn[c].pc = "idle" /\ conn[c].op = "set_doctor_slots"
          /\ conn[c].outcome = "ok"
          /\ conn[c].req.form.day = "Monday"
          /\ conn[c].with = Clients \ {c}
    /\ conn[1].req.form # conn[2].req.form
    /\ Len(doctor_slots) = 2
    /\ \E i \in 1..Len(doctor_slots) : doctor_slots[i].day = "Tuesday"

\* the row is a template for the (doctor, weekday, tenant) client c asks
ForQueryOf(row, c) ==
    /\ row.doctor_id = conn[c].req.doctor_id
    /\ row.day = conn[c].day
    /\ row.hospital_id = conn[c].req.sess.hospital_id

\* the rows in replacement: those of the submissions in flight
RowsInFlight ==
    {SubmittedRow(conn[d].req) :
        d \in {x \in Clients : /\ conn[x].op = "set_doctor_slots"
                               /\ conn[x].pc \in {"delete", "insert", "commit"}}}

\* the step is the template query of client c
ReadsTemplate(c) ==
    /\ conn[c].op = "get_doctor_slots"
    /\ conn[c].pc = "select_template"
    /\ conn'[c].pc # "select_template"

\* C20: template replacement is atomic for readers: a template stored for a
\* (doctor, weekday, tenant) stays stored through every step of a
\* replacement, and a get_doctor_slots query that reads at any point of a
\* replacement of a stored template answers from the old or from the new
\* template and never 'not available'.
C20_ReplacementAtomicForReaders ==
    [][/\ \A r \in Range(doctor_slots) :
             \E n \in Range(doctor_slots') :
                 /\ n.doctor_id = r.doctor_id /\ n.day = r.day
                 /\ n.hospital_id = r.hospital_id
       /\ \A c \in Clients :
             (ReadsTemplate(c)
              /\ \E r \in Range(doctor_slots) : ForQueryOf(r, c)) =>
                /\ conn'[c].outcome # "not_available"
                /\ conn'[c].pc = "select_booked" =>
                      \E r \in Range(doctor_slots) \cup RowsInFlight :
                          /\ ForQueryOf(r, c)
                          /\ conn'[c].slots =
                                GeneratedSlots[TemplateTimes(r)].slots]_vars

\* a query is about to read the template of a (doctor, weekday, tenant)
\* that is stored, while a replacement of it has run its DELETE and not
\* yet its INSERT
C20_Witness ==
    \E c, d \in Clients :
        /\ conn[c].op = "get_doctor_slots" /\ conn[c].pc = "select_template"
        /\ conn[d].op = "set_doctor_slots" /\ conn[d].pc = "insert"
        /\ ForQueryOf(SubmittedRow(conn[d].req), c)
        /\ \E r \in Range(doctor_slots) :
              ForQueryOf(r, c) /\ r # SubmittedRow(conn[d].req)
        /\ \A r \in Range(conn[d].tx) : ~ForQueryOf(r, c)

\* the set_doctor_slots request of client c ends in this step between its
\* DELETE and its commit: its INSERT has raised
InsertRaises(c) == conn[c].pc = "insert" /\ conn'[c].pc = "idle"

\* the templates of the table on the key of the request
KeyRows(tbl, req) ==
    SelectTemplate(tbl, req.doctor_id, req.form.day, req.sess.hospital_id)

\* C27: when the INSERT of a set_doctor_slots replacement raises after its
\* DELETE has run, nothing is committed: the template stored for that
\* (doctor, weekday, tenant) is still there, every other template is
\* unchanged, and the response is the error.
C27_FailedReplaceCommitsNothing ==
    [][\A c \in Clients : InsertRaises(c) =>
          /\ KeyRows(doctor_slots', conn[c].req)
                = KeyRows(doctor_slots, conn[c].req)
          /\ doctor_slots' = doctor_slots
          /\ conn'[c].outcome = "error"
          /\ db_lock' = 0
    ]_vars

\* a replacement of the Monday template that no request overlapped has
\* ended in the error: the Monday template stored before, which differs
\* from the submitted one, and the Tuesday template are in the table
C27_Witness ==
    \E c \in Clients :
        /\ conn[c].pc = "idle"
        /\ conn[c].op = "set_doctor_slots"
        /\ conn[c].outcome = "error"
        /\ conn[c].with = {}
        /\ conn[c].req.form = FormInverted
        /\ Len(doctor_slots) = 2
        /\ \E i, j \in 1..2 :
              /\ doctor_slots[i] = SubmittedRow(
                     SetSlotsReq(AdminSession(1), 1, FormValid, TRUE))
              /\ doctor_slots[j].day = "Tuesday"

-----------------------------------------------------------------------------
(* Claims about the weekday of a date, under SpecDay *)

\* the weekday of the Gregorian calendar by Zeller's rule, from the year,
\* the month and the day
GregorianWeekday(t) ==
    LET a == (14 - t[2]) \div 12
        y == t[1] - a
        m == t[2] + 12 * a - 2
        w == (t[3] + y + (y \div 4) - (y \div 100) + (y \div 400)
                + ((31 * m) \div 12)) % 7
    IN <<"Sunday", "Monday", "Tuesday", "Wednesday", "Thursday", "Friday",
         "Saturday">>[w + 1]

\* the place of a weekday name in the week
DayIndex(day) == CHOOSE i \in 1..7 : DayNames[i] = day

\* the query of client c has resolved the weekday of its date
DayResolved(c) ==
    /\ conn[c].op = "get_doctor_slots"
    /\ IsAdmin(conn[c].req.sess)
    /\ conn[c].outcome # "invalid_date"

\* C18: the weekday get_doctor_slots looks the template up by is a function
\* of the date alone: one of the seven English weekday names, the weekday
\* of the Gregorian calendar, the same for the same date whenever, by
\* whomever and on whatever store the query is made, and the next in the
\* week for the next date.
C18_WeekdayOfDate ==
    \A c \in Clients :
        DayResolved(c) =>
            /\ \E i \in 1..7 : DayNames[i] = conn[c].day
            /\ \A t \in DayTriples :
                  conn[c].req.date = DateText(t) =>
                      conn[c].day = GregorianWeekday(t)
            /\ \A d \in Clients :
                  DayResolved(d) =>
                      /\ ParsedDate[conn[d].req.date] = ParsedDate[conn[c].req.date] =>
                            conn[d].day = conn[c].day
                      /\ ParsedDate[conn[d].req.date] = ParsedDate[conn[c].req.date] + 1 =>
                            DayIndex(conn[d].day) =
                                (DayIndex(conn[c].day) % 7) + 1

\* one client has resolved the 29th of February 2024, the other the 1st of
\* March, on a store with a template
C18_Witness ==
    /\ DayResolved(1) /\ DayResolved(2)
    /\ conn[1].req.date = DateText(<<2024, 2, 29>>)
    /\ conn[2].req.date = DateText(<<2024, 3, 1>>)
    /\ conn[1].day = "Thursday" /\ conn[2].day = "Friday"
    /\ doctor_slots # <<>>

=============================================================================
